---- MODULE Spec2Model ----
(***************************************************************************)
(* Verification model of the casino-blockchain application layer.          *)
(*                                                                         *)
(*   crates/storage/src/lib.rs   batched sled store of the ABCI app        *)
(*   crates/app/src/lib.rs       ABCI app (InitChain, CheckTx,             *)
(*                               FinalizeBlock, Commit)                    *)
(*   crates/app/src/vrf.rs       VRF engine of the ABCI app                *)
(*   crates/util/src/storage.rs  direct-write sled store of the simple app *)
(*   crates/util/src/vrf.rs      VRF engine of the simple app              *)
(*   crates/app/src/simple.rs    simplified app (new, process_block, ...)  *)
(*   crates/types/src/lib.rs     TxFlip, BetRecord, compute_app_hash       *)
(*                                                                         *)
(* Byte strings are modelled symbolically.  A hash is the injective term   *)
(* <<name, input>>; a u64 is encoded as its 8 bytes, low byte first        *)
(* (little endian) or last (big endian); an Option is a sequence of        *)
(* length 0 (None) or 1 (Some); a Result uses the same shape for Err and   *)
(* Ok.                                                                     *)
(* A VRF keypair is a number in Keys; proof and output are terms over the  *)
(* key and the message.                                                    *)
(***************************************************************************)
EXTENDS Integers, Sequences, FiniteSets, TLC

\* ---------------------------------------------------------------- bounds
\* largest block height a FinalizeBlock request carries
MaxHeight == 2
\* longest transaction list of one block
MaxTxs == 2
\* number of distinct keypairs the random generator can return
NumKeys == 2
\* number of blocks executed in one run
MaxBlocks == 2
\* longest transaction list handed to a replica of the replicated pair
RepMaxTxs == 1
\* number of blocks each replica of the pair executes
RepMaxBlocks == 1

Keys == 1..NumKeys
Heights == 1..MaxHeight

\* ----------------------------------------------------------------- state
VARIABLES
    \* ABCI app: the sled database at storage_path
    db,
    \* ABCI app, history: keypair generated by the latest InitChain (dropped
    \* when the handler returns)
    genesisKey,
    \* ABCI app: the latest request served and its response
    last,
    \* ABCI app: number of FinalizeBlock requests served
    nblocks,
    \* ABCI app: the request in flight that holds an open handle on the store
    \* ("none" when no handle is open)
    holder,
    \* replicated pair: the sled database of each replica
    rep,
    \* replicated pair: the latest response of each replica
    ret,
    \* replicated pair, history: every request so far carried the same bytes
    \* to both replicas
    sameLog,
    \* replicated pair: number of FinalizeBlock requests served by each replica
    rblocks,
    \* simple app: the sled database at storage_path
    sdb,
    \* simple app: the keypair of the shared VrfEngine (None before new)
    engine,
    \* simple app: the handles (clones) of MyChainApp, each with its height
    \* field and the position and locals of its process_block call
    clones,
    \* simple app: the latest call that returned and its result
    slast,
    \* simple app: number of process_block calls started
    sblocks,
    \* simple app: the handle that holds the write lock of the shared
    \* RwLock<VrfEngine> (None when the lock is free)
    engineWriter,
    \* VRF engines used on their own: the latest call and its result
    vcall,
    \* storage crate used on its own: a database and the batch staged on it
    store,
    sbatch

abciVars == <<db, genesisKey, last, nblocks, holder>>
replicaVars == <<rep, ret, sameLog, rblocks>>
simpleVars == <<sdb, engine, clones, slast, sblocks, engineWriter>>
unitVars == <<vcall, store, sbatch>>
vars == <<db, genesisKey, last, nblocks, holder, rep, ret, sameLog, rblocks,
          sdb, engine, clones, slast, sblocks, engineWriter, vcall, store, sbatch>>

\* ------------------------------------------------- option / integer terms
None == << >>
Some(v) == <<v>>
IsSome(o) == Len(o) = 1
Unwrap(o) == o[1]
UnwrapOr(o, d) == IF IsSome(o) THEN o[1] ELSE d

\* A u64 below 2^31 is a number.  A u64 of 2^32 and above is the pair of its
\* 32-bit limbs, WideHeight(hi, lo) for hi * 2^32 + lo, with lo below 2^31.
WideHeight(hi, lo) == <<"u64", hi, lo>>
\* the four low bytes of n, lowest first
LowBytes(n) == <<n % 256, (n \div 256) % 256, (n \div 65536) % 256, (n \div 16777216) % 256>>
\* u64::to_le_bytes / from_le_bytes
to_le_bytes(n) == LowBytes(n) \o <<0, 0, 0, 0>>
\* u64::to_le_bytes of a u64 of 2^32 and above
wide_to_le_bytes(w) == LowBytes(w[3]) \o LowBytes(w[2])
\* the four high bytes of the encoding are not all 0
IsWideLe(b) == b[5] + b[6] + b[7] + b[8] > 0
from_le_bytes(b) ==
    IF IsWideLe(b)
    THEN WideHeight(b[5] + 256 * b[6] + 65536 * b[7] + 16777216 * b[8],
                    b[1] + 256 * b[2] + 65536 * b[3] + 16777216 * b[4])
    ELSE b[1] + 256 * b[2] + 65536 * b[3] + 16777216 * b[4]
\* u64::to_be_bytes / from_be_bytes
to_be_bytes(n) == <<0, 0, 0, 0, LowBytes(n)[4], LowBytes(n)[3], LowBytes(n)[2], LowBytes(n)[1]>>
from_be_bytes(b) == b[8] + 256 * b[7] + 65536 * b[6] + 16777216 * b[5]

\* ------------------------------------------------------- hash functions
\* blake3::hash / blake3::Hasher over the concatenation of the chunks
blake3(chunks) == <<"blake3", chunks>>
\* Sha256 over the concatenation of the chunks
sha256(chunks) == <<"sha256", chunks>>

\* --------------------------------------------------------------- TxFlip
\* Transaction byte strings.  bincode's fixed layout is u8 | [u8;32] | u64 |
\* u64 (49 bytes); a shorter string does not decode (ok = FALSE), a longer
\* one decodes and its trailing bytes (extra) are ignored.
TxBytes(v, w, a, n, e) ==
    [ok |-> TRUE, version |-> v, wallet |-> w, amount |-> a, nonce |-> n, extra |-> e]
ShortBytes == [ok |-> FALSE, version |-> 0, wallet |-> 0, amount |-> 0, nonce |-> 0, extra |-> 0]

\* wallet 0 is the all-zero wallet [0u8; 32]
ZeroWallet == 0

TxValid      == TxBytes(1, 1, 1000, 1, 0)
TxValid2     == TxBytes(1, 2, 500, 1, 0)
TxZeroAmount == TxBytes(1, 1, 0, 1, 0)
TxZeroWallet == TxBytes(1, ZeroWallet, 1000, 1, 0)
TxVersion2   == TxBytes(2, 1, 1000, 1, 0)

\* the byte strings offered to the mempool
TxPool == {TxValid, TxZeroAmount, TxZeroWallet, TxVersion2, ShortBytes}
\* the byte strings placed in the blocks of the ABCI app
BlockPool == {TxValid, TxZeroAmount, TxZeroWallet, ShortBytes}

\* TxFlip::to_bytes (bincode::serialize)
TxFlip_to_bytes(tx) == TxBytes(tx.version, tx.wallet, tx.amount, tx.nonce, 0)
\* TxFlip::from_bytes (bincode::deserialize): Some(tx) for Ok, None for Err
TxFlip_from_bytes(b) ==
    IF b.ok
    THEN Some([version |-> b.version, wallet |-> b.wallet, amount |-> b.amount, nonce |-> b.nonce])
    ELSE None
\* TxFlip::hash
TxFlip_hash(tx) == blake3(<<TxFlip_to_bytes(tx)>>)

\* all transaction lists of length 0..MaxTxs
RECURSIVE SeqsUpTo(_, _)
SeqsUpTo(S, n) ==
    IF n = 0 THEN {<< >>}
    ELSE LET shorter == SeqsUpTo(S, n - 1)
         IN shorter \cup {Append(s, x) : s \in {t \in shorter : Len(t) = n - 1}, x \in S}
TxLists == SeqsUpTo(BlockPool, MaxTxs)

\* ------------------------------------------------ VRF engine of the ABCI app
\* VrfEngine::public_key: a fixed placeholder, whatever the keypair
app_public_key(key) == <<"pk", 1>>
\* a message that leaves the nonce out
compute_flip_message_NoNonce(chain_id, height, block_random, tx_hash, wallet, nonce) ==
    sha256(<<"MYCHAIN:VRF:v1", chain_id, to_le_bytes(height), block_random,
             tx_hash, wallet, to_le_bytes(0)>>)
\* VrfEngine::compute_flip_message
compute_flip_message(chain_id, height, block_random, tx_hash, wallet, nonce) ==
    sha256(<<"MYCHAIN:VRF:v1", chain_id, to_le_bytes(height), block_random,
             tx_hash, wallet, to_le_bytes(nonce)>>)
\* a prove that folds in what the engine was last called for
app_prove_Chained(key, message) ==
    [output |-> <<"vrf_output", key, message, vcall.cur.kind>>,
     proof |-> <<"vrf_proof", key, message, vcall.cur.kind>>]
\* VrfEngine::prove: (output, proof) of the keypair over the message
app_prove(key, message) ==
    [output |-> <<"vrf_output", key, message>>, proof |-> <<"vrf_proof", key, message>>]
\* first byte of blake3(vrf_output): a fixed function of key and message
Blake3Byte0(vrf_output) ==
    LET m == vrf_output[3][2]
    IN  vrf_output[2] + m[3][1] + m[3][8] + m[6] + m[7][1] + m[7][8]
\* VrfEngine::verify of the ABCI app: Ok(true), whatever the arguments
app_verify(public_key, message, proof_bytes, expected_output) == TRUE
\* VrfEngine::derive_flip_result
derive_flip_result(vrf_output) == (Blake3Byte0(vrf_output) % 2) = 1
\* VrfEngine::process_flip
vrf_process_flip(key, chain_id, height, block_random, tx_hash, wallet, nonce) ==
    LET message == compute_flip_message(chain_id, height, block_random, tx_hash, wallet, nonce)
        po == app_prove(key, message)
    IN  [message |-> message, proof |-> po.proof, output |-> po.output,
         result |-> derive_flip_result(po.output)]

\* ------------------------------------------------------- BetRecord codec
BetRecord_to_bytes(r) == <<"bincode", r>>
BetRecord_from_bytes(b) == b[2]

\* ------------------------------------ storage of the ABCI app (sled trees)
EmptyTree == << >>
Put(tree, k, v) == [x \in (DOMAIN tree) \cup {k} |-> IF x = k THEN v ELSE tree[x]]
Get(tree, k) == IF k \in DOMAIN tree THEN Some(tree[k]) ELSE None

EmptyDb == [meta |-> EmptyTree, app |-> EmptyTree, state |-> EmptyTree, tx |-> EmptyTree]
TreeNames == {"meta", "app", "state", "tx"}

LastHeightKey == <<"last_height">>
VrfPkKey == <<"vrf_pk">>
BetKey(tx_hash) == <<"bets", tx_hash>>
\* format!("app_hash/{}", height): one key for each u64, named here by the
\* encoding of the height
AppHashKeyOf(le) == <<"app_hash", le>>
AppHashKey(height) == AppHashKeyOf(to_le_bytes(height))
WideAppHashKey(w) == AppHashKeyOf(wide_to_le_bytes(w))
TxKey(tx_hash) == <<"tx", tx_hash>>

\* BatchOperation::Insert
Insert(tree_name, key, value) == [tree_name |-> tree_name, key |-> key, value |-> value]
\* Storage::batch
batch == << >>

\* Storage::get_last_height
get_last_height(d) ==
    LET v == Get(d.meta, LastHeightKey)
    IN  IF IsSome(v) THEN from_le_bytes(Unwrap(v)) ELSE 0
\* Storage::set_last_height
set_last_height(height, b) == Append(b, Insert("meta", LastHeightKey, to_le_bytes(height)))
\* Storage::get_vrf_public_key
get_vrf_public_key(d) == Get(d.app, VrfPkKey)
\* Storage::set_vrf_public_key
set_vrf_public_key(vrf_pk, b) == Append(b, Insert("app", VrfPkKey, vrf_pk))
\* Storage::store_bet
store_bet(tx_hash, bet, b) == Append(b, Insert("app", BetKey(tx_hash), BetRecord_to_bytes(bet)))
\* Storage::get_bet
get_bet(d, tx_hash) ==
    LET v == Get(d.app, BetKey(tx_hash))
    IN  IF IsSome(v) THEN Some(BetRecord_from_bytes(Unwrap(v))) ELSE None
\* Storage::store_app_hash
store_app_hash(height, app_hash, b) == Append(b, Insert("state", AppHashKey(height), app_hash))
\* Storage::get_app_hash
get_app_hash(d, height) == Get(d.state, AppHashKey(height))
\* Storage::store_tx_height
store_tx_height(tx_hash, height, b) == Append(b, Insert("tx", TxKey(tx_hash), to_le_bytes(height)))
\* Storage::get_tx_height
get_tx_height(d, tx_hash) ==
    LET v == Get(d.tx, TxKey(tx_hash))
    IN  IF IsSome(v) THEN Some(from_le_bytes(Unwrap(v))) ELSE None

\* the inserts of one tree, applied in staging order (sled::Batch)
RECURSIVE ApplyTreeBatch(_, _)
ApplyTreeBatch(tree, ops) ==
    IF ops = << >> THEN tree
    ELSE ApplyTreeBatch(Put(tree, Head(ops).key, Head(ops).value), Tail(ops))
OpsOfTree(b, t) == SelectSeq(b, LAMBDA op : op.tree_name = t)
\* an apply_batch that inserts the operations of a tree last to first
apply_batch_Reversed(d, b) ==
    [t \in TreeNames |->
        LET ops == OpsOfTree(b, t)
        IN  ApplyTreeBatch(d[t], [i \in 1..Len(ops) |-> ops[Len(ops) + 1 - i]])]
\* Storage::apply_batch, every tree applied and flushed
apply_batch(d, b) == [t \in TreeNames |-> ApplyTreeBatch(d[t], OpsOfTree(b, t))]

\* the trees a batch has operations for
TreesOf(b) == {b[i].tree_name : i \in 1..Len(b)}
\* Storage::apply_batch returning Err: the trees of `applied` (those the
\* HashMap iteration reached before the failing open_tree / apply_batch)
\* hold their operations, the others do not; no flush
apply_batch_failing(d, b, applied) ==
    [t \in TreeNames |-> IF t \in applied THEN ApplyTreeBatch(d[t], OpsOfTree(b, t)) ELSE d[t]]
\* the sets of trees an apply_batch that fails can have applied
FailingPrefixes(b) == (SUBSET TreesOf(b)) \ {TreesOf(b)}

\* Storage::compute_app_hash
storage_compute_app_hash(d, height) ==
    LET pk == get_vrf_public_key(d)
    IN  IF IsSome(pk) THEN blake3(<<to_le_bytes(height), Unwrap(pk)>>)
        ELSE blake3(<<to_le_bytes(height)>>)

\* ------------------------------------------------------------ ABCI app
ChainId == "mychain"
\* AppHash of vec![0u8; 32] and of vec![]
ZeroAppHash == <<"zero32">>
EmptyAppHash == << >>

\* MyChainApp::process_flip (always Ok: neither the hash nor the proof can fail)
process_flip(tx, height, key, chain_id) ==
    LET tx_hash == TxFlip_hash(tx)
        block_random == to_le_bytes(height)
        f == vrf_process_flip(key, chain_id, height, block_random, tx_hash, tx.wallet, tx.nonce)
    IN  [wallet |-> tx.wallet, amount |-> tx.amount, nonce |-> tx.nonce,
         vrf_message |-> f.message, vrf_proof |-> f.proof, vrf_output |-> f.output,
         result |-> f.result, height |-> height, tx_hash |-> tx_hash]

\* a CheckTx that tests the wallet before the amount
CheckTxCode_WalletFirst(tx_bytes) ==
    LET r == TxFlip_from_bytes(tx_bytes)
    IN  IF IsSome(r)
        THEN IF Unwrap(r).wallet = ZeroWallet THEN 2
             ELSE IF Unwrap(r).amount = 0 THEN 1
             ELSE 0
        ELSE 3

\* mempool service: the code CheckTx returns for a byte string
CheckTxCode(tx_bytes) ==
    LET r == TxFlip_from_bytes(tx_bytes)
    IN  IF IsSome(r)
        THEN IF Unwrap(r).amount = 0 THEN 1
             ELSE IF Unwrap(r).wallet = ZeroWallet THEN 2
             ELSE 0
        ELSE 3

\* a transaction loop that collects the records last to first
FinalizeBetRecords_Reversed(txs, height, key) ==
    LET parsed == SelectSeq(txs, LAMBDA b : IsSome(TxFlip_from_bytes(b)))
    IN  [i \in 1..Len(parsed) |->
            [tx_bytes |-> parsed[Len(parsed) + 1 - i],
             record |-> process_flip(Unwrap(TxFlip_from_bytes(parsed[Len(parsed) + 1 - i])),
                                     height, key, ChainId)]]
\* FinalizeBlock transaction loop: bet_records, in request order
FinalizeBetRecords(txs, height, key) ==
    LET parsed == SelectSeq(txs, LAMBDA b : IsSome(TxFlip_from_bytes(b)))
    IN  [i \in 1..Len(parsed) |->
            [tx_bytes |-> parsed[i],
             record |-> process_flip(Unwrap(TxFlip_from_bytes(parsed[i])), height, key, ChainId)]]

\* FinalizeBlock: the event pushed for one record
FlipEvent(record) ==
    [kind |-> "flip", wallet |-> record.wallet, amount |-> record.amount,
     result |-> IF record.result THEN "heads" ELSE "tails",
     tx_hash |-> record.tx_hash, vrf_proof |-> record.vrf_proof,
     vrf_output |-> record.vrf_output]

\* FinalizeBlock "Store records": store_bet and store_tx_height per record
RECURSIVE StageRecords(_, _, _)
StageRecords(b, bet_records, height) ==
    IF bet_records = << >> THEN b
    ELSE LET tx_hash == blake3(<<Head(bet_records).tx_bytes>>)
             b1 == store_bet(tx_hash, Head(bet_records).record, b)
             b2 == store_tx_height(tx_hash, height, b1)
         IN  StageRecords(b2, Tail(bet_records), height)

\* FinalizeBlock: the batch staged for a block
FinalizeBatch(d, height, bet_records) ==
    LET b1 == StageRecords(batch, bet_records, height)
        b2 == set_last_height(height, b1)
    IN  store_app_hash(height, storage_compute_app_hash(d, height), b2)

\* the batch InitChain stages
InitChainBatch(key) == set_vrf_public_key(app_public_key(key), set_last_height(0, batch))
\* InitChain on a database
InitChainDb(d, key) == apply_batch(d, InitChainBatch(key))

\* FinalizeBlock on a database: the database it leaves
FinalizeBlockDb(d, height, txs, key) ==
    apply_batch(d, FinalizeBatch(d, height, FinalizeBetRecords(txs, height, key)))

\* a FinalizeBlock whose digest also folds in the proofs of the new records
FinalizeBlockResponse_DigestOverProofs(d, height, txs, key) ==
    LET bet_records == FinalizeBetRecords(txs, height, key)
    IN  [kind |-> "FinalizeBlock", height |-> height, txs |-> txs,
         events |-> [i \in 1..Len(bet_records) |-> FlipEvent(bet_records[i].record)],
         app_hash |-> blake3(<<to_le_bytes(height), get_vrf_public_key(d),
                               [i \in 1..Len(bet_records) |-> bet_records[i].record.vrf_proof]>>)]

\* FinalizeBlock on a database: the response it returns
FinalizeBlockResponse(d, height, txs, key) ==
    LET bet_records == FinalizeBetRecords(txs, height, key)
    IN  [kind |-> "FinalizeBlock", height |-> height, txs |-> txs,
         events |-> [i \in 1..Len(bet_records) |-> FlipEvent(bet_records[i].record)],
         app_hash |-> storage_compute_app_hash(d, height)]

\* `n as u32`: n modulo 2^32, computed on 16-bit limbs
as_u32(n) == ((n \div 65536) % 65536) * 65536 + (n % 65536)

\* Info: the response for the state of a database (`as u32` keeps the low
\* limb of a height of 2^32 and above)
InfoResponse(d) ==
    LET last_block_height == get_last_height(d)
        wide == IsWideLe(UnwrapOr(Get(d.meta, LastHeightKey), to_le_bytes(0)))
    IN  [kind |-> "Info",
         last_block_height |-> IF wide THEN as_u32(last_block_height[3])
                               ELSE as_u32(last_block_height),
         last_block_app_hash |->
             IF wide THEN UnwrapOr(Get(d.state, WideAppHashKey(last_block_height)), ZeroAppHash)
             ELSE UnwrapOr(get_app_hash(d, last_block_height), ZeroAppHash)]

\* ConsensusRequest::InitChain, storage opened and the batch applied
InitChain(key) ==
    /\ holder = "none"
    /\ db' = InitChainDb(db, key)
    /\ genesisKey' = Some(key)
    /\ last' = [kind |-> "InitChain", key |-> key, app_hash |-> ZeroAppHash]
    /\ UNCHANGED <<nblocks, holder, replicaVars, simpleVars, unitVars>>

\* ConsensusRequest::InitChain, Storage::open fails (the store is held by
\* another handle, or an I/O error)
InitChainStorageError ==
    /\ last' = [kind |-> "InitChainError", app_hash |-> ZeroAppHash]
    /\ UNCHANGED <<db, genesisKey, nblocks, holder, replicaVars, simpleVars, unitVars>>

\* ConsensusRequest::InitChain, apply_batch fails: logged, normal response
InitChainApplyError(key, applied) ==
    /\ holder = "none"
    /\ applied \in FailingPrefixes(InitChainBatch(key))
    /\ db' = apply_batch_failing(db, InitChainBatch(key), applied)
    /\ genesisKey' = Some(key)
    /\ last' = [kind |-> "InitChainApplyError", key |-> key, app_hash |-> ZeroAppHash]
    /\ UNCHANGED <<nblocks, holder, replicaVars, simpleVars, unitVars>>

\* MempoolRequest::CheckTx
CheckTx(tx_bytes) ==
    /\ last' = [kind |-> "CheckTx", tx |-> tx_bytes, code |-> CheckTxCode(tx_bytes)]
    /\ UNCHANGED <<db, genesisKey, nblocks, holder, replicaVars, simpleVars, unitVars>>

\* ConsensusRequest::FinalizeBlock, storage opened, the key read and the
\* batch applied
FinalizeBlock(height, txs, key) ==
    /\ holder = "none"
    /\ nblocks < MaxBlocks
    /\ db' = FinalizeBlockDb(db, height, txs, key)
    /\ last' = FinalizeBlockResponse(db, height, txs, key)
    /\ nblocks' = nblocks + 1
    /\ UNCHANGED <<genesisKey, holder, replicaVars, simpleVars, unitVars>>

\* ConsensusRequest::FinalizeBlock, Storage::open or get_vrf_public_key
\* fails (the store is held by another handle, or an I/O error)
FinalizeBlockStorageError(height) ==
    /\ nblocks < MaxBlocks
    /\ last' = [kind |-> "FinalizeBlockError", height |-> height, events |-> << >>,
                app_hash |-> EmptyAppHash]
    /\ nblocks' = nblocks + 1
    /\ UNCHANGED <<db, genesisKey, holder, replicaVars, simpleVars, unitVars>>

\* ConsensusRequest::FinalizeBlock, apply_batch fails: logged, and the
\* response is the one of a block that was applied
FinalizeBlockApplyError(height, txs, key, applied) ==
    /\ holder = "none"
    /\ nblocks < MaxBlocks
    /\ LET b == FinalizeBatch(db, height, FinalizeBetRecords(txs, height, key))
       IN  /\ applied \in FailingPrefixes(b)
           /\ db' = apply_batch_failing(db, b, applied)
    /\ last' = [FinalizeBlockResponse(db, height, txs, key) EXCEPT !.kind = "FinalizeBlockApplyError"]
    /\ nblocks' = nblocks + 1
    /\ UNCHANGED <<genesisKey, holder, replicaVars, simpleVars, unitVars>>

\* a Commit that rewrites the persisted height
Commit_ResetHeight ==
    /\ last' = [kind |-> "Commit", retain_height |-> 0]
    /\ db' = apply_batch(db, set_last_height(0, batch))
    /\ UNCHANGED <<genesisKey, nblocks, holder, replicaVars, simpleVars, unitVars>>

\* ConsensusRequest::Commit
Commit ==
    /\ last' = [kind |-> "Commit", retain_height |-> 0]
    /\ UNCHANGED <<db, genesisKey, nblocks, holder, replicaVars, simpleVars, unitVars>>

\* ConsensusRequest::FinalizeBlock of an empty block at a height of 2^32 and
\* above: the height and the digest are staged and applied
FinalizeBlockWide(w, key) ==
    /\ holder = "none"
    /\ nblocks < MaxBlocks
    /\ LET pk == get_vrf_public_key(db)
           app_hash == IF IsSome(pk) THEN blake3(<<wide_to_le_bytes(w), Unwrap(pk)>>)
                       ELSE blake3(<<wide_to_le_bytes(w)>>)
           b1 == Append(batch, Insert("meta", LastHeightKey, wide_to_le_bytes(w)))
           b2 == Append(b1, Insert("state", WideAppHashKey(w), app_hash))
       IN  /\ db' = apply_batch(db, b2)
           /\ last' = [kind |-> "FinalizeBlock", wide |-> TRUE, height |-> w, txs |-> << >>,
                        events |-> << >>, app_hash |-> app_hash]
    /\ nblocks' = nblocks + 1
    /\ UNCHANGED <<genesisKey, holder, replicaVars, simpleVars, unitVars>>

\* ConsensusRequest::PrepareProposal
PrepareProposal(txs) ==
    /\ last' = [kind |-> "PrepareProposal", req_txs |-> txs, txs |-> txs]
    /\ UNCHANGED <<db, genesisKey, nblocks, holder, replicaVars, simpleVars, unitVars>>

\* InfoRequest::Info, app.storage(): the handle is opened, or the open fails
\* because another request holds the store
InfoOpen ==
    /\ IF holder = "none"
       THEN holder' = "Info" /\ UNCHANGED last
       ELSE /\ last' = [kind |-> "Info", last_block_height |-> 0,
                        last_block_app_hash |-> EmptyAppHash]
            /\ UNCHANGED holder
    /\ UNCHANGED <<db, genesisKey, nblocks, replicaVars, simpleVars, unitVars>>

\* InfoRequest::Info, the reads and the response; the handle is dropped
InfoRespond ==
    /\ holder = "Info"
    /\ last' = InfoResponse(db)
    /\ holder' = "none"
    /\ UNCHANGED <<db, genesisKey, nblocks, replicaVars, simpleVars, unitVars>>

AbciInit ==
    /\ db = EmptyDb
    /\ genesisKey = None
    /\ last = [kind |-> "start"]
    /\ nblocks = 0
    /\ holder = "none"

AbciNext ==
    \/ \E key \in Keys : InitChain(key)
    \/ \E tx_bytes \in TxPool : CheckTx(tx_bytes)
    \/ \E height \in Heights, txs \in TxLists, key \in Keys : FinalizeBlock(height, txs, key)
    \/ \E height \in Heights : FinalizeBlockStorageError(height)
    \/ Commit

\* The ABCI app with storage faults and a concurrent Info request: the
\* consensus requests can hit a failing Storage::open or apply_batch, and an
\* Info request holds its handle between its open and its response.
\* longest transaction list of a block under faults
FaultMaxTxs == 1
\* the byte strings placed in the blocks under faults
FaultPool == {TxValid, ShortBytes}
FaultTxLists == SeqsUpTo(FaultPool, FaultMaxTxs)

FaultsNext ==
    \/ \E key \in Keys : InitChain(key)
    \/ InitChainStorageError
    \/ \E key \in Keys, applied \in SUBSET TreeNames : InitChainApplyError(key, applied)
    \/ \E height \in Heights, txs \in FaultTxLists, key \in Keys : FinalizeBlock(height, txs, key)
    \/ \E height \in Heights : FinalizeBlockStorageError(height)
    \/ \E height \in Heights, txs \in FaultTxLists, key \in Keys, applied \in SUBSET TreeNames :
          FinalizeBlockApplyError(height, txs, key, applied)
    \/ InfoOpen
    \/ InfoRespond

\* a decodable transaction followed by one more byte: TxValid's fields
TxTrailing == TxBytes(1, 1, 1000, 1, 1)
\* a transaction with amount 0 and the all-zero wallet
TxZeroBoth == TxBytes(1, ZeroWallet, 0, 1, 0)

\* request.data of a Query: a 32-byte hash, fewer than 32 bytes, or a hash
\* followed by one more byte
ShortData == <<"short">>
LongData(hash) == <<"long", hash>>
data_len(data) == IF data[1] = "short" THEN 0 ELSE IF data[1] = "long" THEN 33 ELSE 32

\* a handle_query that does not test the length of the data
QueryResponse_NoLengthCheck(d, path, data) ==
    IF path = "/bet"
    THEN LET bet == get_bet(d, data)
         IN  IF IsSome(bet)
             THEN [kind |-> "Query", path |-> path, data |-> data, code |-> 0,
                   value |-> BetRecord_to_bytes(Unwrap(bet))]
             ELSE [kind |-> "Query", path |-> path, data |-> data, code |-> 4,
                   value |-> << >>]
    ELSE [kind |-> "Query", path |-> path, data |-> data, code |-> 6, value |-> << >>]

\* MyChainApp::handle_query with the storage opened
QueryResponse(d, path, data) ==
    IF path = "/bet"
    THEN IF data_len(data) < 32
         THEN [kind |-> "Query", path |-> path, data |-> data, code |-> 2, value |-> << >>]
         ELSE LET bet == get_bet(d, data)
              IN  IF IsSome(bet)
                  THEN [kind |-> "Query", path |-> path, data |-> data, code |-> 0,
                        value |-> BetRecord_to_bytes(Unwrap(bet))]
                  ELSE [kind |-> "Query", path |-> path, data |-> data, code |-> 4,
                        value |-> << >>]
    ELSE [kind |-> "Query", path |-> path, data |-> data, code |-> 6, value |-> << >>]

\* InfoRequest::Query, storage opened
Query(path, data) ==
    /\ holder = "none"
    /\ last' = QueryResponse(db, path, data)
    /\ UNCHANGED <<db, genesisKey, nblocks, holder, replicaVars, simpleVars, unitVars>>

\* InfoRequest::Query, Storage::open fails
QueryStorageError(path, data) ==
    /\ last' = [kind |-> "QueryError", path |-> path, data |-> data, code |-> 1, value |-> << >>]
    /\ UNCHANGED <<db, genesisKey, nblocks, holder, replicaVars, simpleVars, unitVars>>

\* The services of the ABCI app on one node, with short blocks: InitChain,
\* blocks at consecutive heights, Commit, CheckTx and Query requests in any
\* order.
\* the transaction lists of the blocks
ServiceTxLists == {<< >>, <<TxValid>>, <<TxTrailing>>, <<ShortBytes, TxValid>>}
\* the byte strings offered to the mempool
CheckPool == TxPool \cup {TxTrailing, TxZeroBoth}
\* the paths and data of the Query requests
QueryPaths == {"/bet", "/height"}
QueryData ==
    {blake3(<<TxValid>>), blake3(<<TxTrailing>>), blake3(<<TxValid2>>), ShortData,
     LongData(blake3(<<TxValid>>))}

ServiceNext ==
    \/ \E key \in Keys : InitChain(key)
    \/ \E tx_bytes \in CheckPool : CheckTx(tx_bytes)
    \/ \E txs \in ServiceTxLists, key \in Keys : FinalizeBlock(get_last_height(db) + 1, txs, key)
    \/ Commit
    \/ \E path \in QueryPaths, data \in QueryData : Query(path, data)
    \/ \E path \in QueryPaths, data \in QueryData : QueryStorageError(path, data)

\* The consensus service of the ABCI app on one node: proposals are
\* prepared and blocks finalized at consecutive heights.
ProposalTxLists == {<<TxValid>>, <<TxValid2, ShortBytes, TxValid>>, <<TxTrailing, TxValid2>>}
ProposalNext ==
    \/ \E key \in Keys : InitChain(key)
    \/ \E txs \in ProposalTxLists : PrepareProposal(txs)
    \/ \E txs \in ProposalTxLists, key \in Keys : FinalizeBlock(get_last_height(db) + 1, txs, key)

\* The ABCI app on one node asked for its state: InitChain, blocks at any
\* height a request can carry, and Info requests.
WideHeights == {WideHeight(1, 0), WideHeight(1, 1)}
InfoTxLists == {<< >>, <<TxValid>>}
InfoNext ==
    \/ \E key \in Keys : InitChain(key)
    \/ \E height \in Heights, txs \in InfoTxLists, key \in Keys : FinalizeBlock(height, txs, key)
    \/ \E w \in WideHeights, key \in Keys : FinalizeBlockWide(w, key)
    \/ InfoOpen
    \/ InfoRespond

\* ------------------------------------------- two replicas of the ABCI app
\* Two replicas that hold the same persisted state are each handed a request
\* by the consensus driver; every replica draws its own keypair.  A pair that
\* no longer holds the same state is not driven further.
Replicas == {1, 2}
\* the byte strings placed in the blocks of the replicas
ReplicaPool == {TxValid, TxValid2}
ReplicaTxLists == SeqsUpTo(ReplicaPool, RepMaxTxs)

ReplicasInitChain(k1, k2) ==
    /\ rep[1] = rep[2]
    /\ rep' = [r \in Replicas |-> InitChainDb(rep[r], IF r = 1 THEN k1 ELSE k2)]
    /\ ret' = [r \in Replicas |-> [kind |-> "InitChain", app_hash |-> ZeroAppHash]]
    /\ UNCHANGED <<sameLog, rblocks, abciVars, simpleVars, unitVars>>

ReplicasFinalizeBlock(height, txs1, txs2, k1, k2) ==
    /\ rep[1] = rep[2]
    /\ rblocks < RepMaxBlocks
    /\ rep' = [r \in Replicas |->
                 FinalizeBlockDb(rep[r], height, IF r = 1 THEN txs1 ELSE txs2,
                                 IF r = 1 THEN k1 ELSE k2)]
    /\ ret' = [r \in Replicas |->
                 FinalizeBlockResponse(rep[r], height, IF r = 1 THEN txs1 ELSE txs2,
                                       IF r = 1 THEN k1 ELSE k2)]
    /\ sameLog' = (sameLog /\ txs1 = txs2)
    /\ rblocks' = rblocks + 1
    /\ UNCHANGED <<abciVars, simpleVars, unitVars>>

ReplicasInit ==
    /\ rep = [r \in Replicas |-> EmptyDb]
    /\ ret = [r \in Replicas |-> [kind |-> "start"]]
    /\ sameLog = TRUE
    /\ rblocks = 0

ReplicasNext ==
    /\ rep[1] = rep[2]
    /\ \/ \E k1 \in Keys, k2 \in Keys : ReplicasInitChain(k1, k2)
       \/ \E height \in Heights, txs1 \in ReplicaTxLists, txs2 \in ReplicaTxLists,
             k1 \in Keys, k2 \in Keys : ReplicasFinalizeBlock(height, txs1, txs2, k1, k2)

\* ------------------------------------ storage of the simple app (util)
EmptySimpleDb == [meta |-> EmptyTree, app |-> EmptyTree, state |-> EmptyTree]
Zero32 == <<"zero32">>

LatestHeightKey == <<"latest_height">>
BlockRandomKey(height) == <<"block_random", height>>
SimpleAppHashKey(height) == <<"app_hash", height>>
SimpleBetKey(tx_hash) == <<"bet", tx_hash>>

\* mychain_types::compute_app_hash
compute_app_hash(height, block_random) == blake3(<<to_be_bytes(height), block_random>>)
\* mychain_util::compute_block_random
compute_block_random(prev_block_hash, prev_vrf_accum) == blake3(<<prev_block_hash, prev_vrf_accum>>)

\* Storage::init_genesis: one sled batch, applied to the app tree
init_genesis(d, vrf_public_key, initial_block_random) ==
    LET t1 == Put(d.app, VrfPkKey, vrf_public_key)
        t2 == Put(t1, BlockRandomKey(1), initial_block_random)
        t3 == Put(t2, LatestHeightKey, to_be_bytes(1))
        t4 == Put(t3, SimpleAppHashKey(1), compute_app_hash(1, initial_block_random))
    IN  [d EXCEPT !.app = t4]
\* Storage::get_latest_height
get_latest_height(d) ==
    LET v == Get(d.meta, LatestHeightKey)
    IN  IF IsSome(v) THEN from_be_bytes(Unwrap(v)) ELSE 0
\* a set_latest_height that writes where init_genesis writes (the app tree)
set_latest_height_IntoAppTree(d, height) == [d EXCEPT !.app = Put(@, LatestHeightKey, to_be_bytes(height))]
\* Storage::set_latest_height
set_latest_height(d, height) == [d EXCEPT !.meta = Put(@, LatestHeightKey, to_be_bytes(height))]
\* Storage::get_vrf_public_key
simple_get_vrf_public_key(d) == Get(d.app, VrfPkKey)
\* Storage::get_block_random
get_block_random(d, height) == Get(d.app, BlockRandomKey(height))
\* Storage::set_block_random
set_block_random(d, height, block_random) ==
    [d EXCEPT !.app = Put(@, BlockRandomKey(height), block_random)]
\* Storage::store_bet
simple_store_bet(d, tx_hash, bet_record) ==
    [d EXCEPT !.app = Put(@, SimpleBetKey(tx_hash), BetRecord_to_bytes(bet_record))]
\* Storage::get_bet
simple_get_bet(d, tx_hash) ==
    LET v == Get(d.app, SimpleBetKey(tx_hash))
    IN  IF IsSome(v) THEN Some(BetRecord_from_bytes(Unwrap(v))) ELSE None
\* Storage::get_app_hash
simple_get_app_hash(d, height) == Get(d.state, SimpleAppHashKey(height))
\* Storage::set_app_hash
set_app_hash(d, height, app_hash) ==
    [d EXCEPT !.state = Put(@, SimpleAppHashKey(height), app_hash)]

\* ---------------------------------------- VRF engine of the simple app (util)
\* VrfEngine::public_key_bytes
public_key_bytes(key) == <<"p256_point", key>>
\* VrfEngine::compute_message
compute_message(chain_id, height, block_random, tx_hash, wallet, nonce) ==
    sha256(<<"MYCHAIN:VRF:v1", chain_id, to_be_bytes(height), block_random,
             tx_hash, wallet, to_be_bytes(nonce)>>)
\* VrfEngine::prove: (proof, output)
prove(key, message) ==
    [proof |-> <<"vrf_proof", key, message>>, output |-> <<"vrf_output", key, message>>]

\* ----------------------------------------------------------- simple app
\* longest transaction list of one process_block call
SimMaxTxs == 2
\* number of process_block calls in one run
SimMaxBlocks == 2
\* number of handles (clones) of the application
NumClones == 2

Clones == 1..NumClones
\* the byte strings handed to process_block
SimplePool == {TxValid, TxValid2, TxZeroAmount, ShortBytes}
SimpleTxLists == SeqsUpTo(SimplePool, SimMaxTxs)

\* a handle that does not exist, and a handle at rest
NoBetRecord == << >>
DeadClone ==
    [alive |-> FALSE, height |-> 0, pc |-> "idle", txs |-> << >>, i |-> 0,
     new_height |-> 0, new_block_random |-> Zero32, message |-> << >>, cur |-> NoBetRecord,
     bet_records |-> << >>]
IdleClone(height) == [DeadClone EXCEPT !.alive = TRUE, !.height = height]
AllIdle == \A c \in Clones : clones[c].pc = "idle"

\* MyChainApp::validate_tx: Some(tx) for Ok, None for Err
validate_tx(tx_bytes) ==
    LET r == TxFlip_from_bytes(tx_bytes)
    IN  IF ~IsSome(r) THEN None
        ELSE IF Unwrap(r).version # 1 THEN None
        ELSE IF Unwrap(r).amount = 0 THEN None
        ELSE r

\* MyChainApp::execute_tx up to the proof: the block random is read and the
\* message computed (under the read lock of the engine); None for Err
execute_tx_message(d, tx, height, tx_hash) ==
    LET block_random == get_block_random(d, height)
    IN  IF ~IsSome(block_random) THEN None
        ELSE Some(compute_message(ChainId, height, Unwrap(block_random), tx_hash,
                                  tx.wallet, tx.nonce))
\* MyChainApp::execute_tx from the proof on: prove (under the write lock of
\* the engine), derive_flip_result and the record
execute_tx_record(key, tx, height, tx_hash, message) ==
    LET po == prove(key, message)
    IN  [wallet |-> tx.wallet, amount |-> tx.amount, nonce |-> tx.nonce,
         msg |-> message, proof |-> po.proof, output |-> po.output,
         result |-> derive_flip_result(po.output),
         height |-> height, tx_hash |-> tx_hash]
\* MyChainApp::execute_tx: Some(record) for Ok, None for Err
execute_tx(d, key, tx, height, tx_hash) ==
    LET message == execute_tx_message(d, tx, height, tx_hash)
    IN  IF IsSome(message)
        THEN Some(execute_tx_record(key, tx, height, tx_hash, Unwrap(message)))
        ELSE None

\* MyChainApp::new on the store at storage_path: the process starts (or
\* restarts); the handles of the previous process are gone
New(key) ==
    /\ AllIdle
    /\ LET height == get_latest_height(sdb)
       IN  /\ sdb' = IF IsSome(simple_get_vrf_public_key(sdb))
                     THEN sdb
                     ELSE init_genesis(sdb, public_key_bytes(key), Zero32)
           /\ clones' = [c \in Clones |-> IF c = 1 THEN IdleClone(height) ELSE DeadClone]
           /\ slast' = [kind |-> "new", height |-> height]
    /\ engine' = Some(key)
    /\ UNCHANGED <<sblocks, engineWriter, abciVars, replicaVars, unitVars>>

\* MyChainApp::clone (derived): a further handle sharing storage and engine
CloneApp(src, dst) ==
    /\ clones[src].alive /\ clones[src].pc = "idle"
    /\ ~clones[dst].alive
    /\ clones' = [clones EXCEPT ![dst] = IdleClone(clones[src].height)]
    /\ UNCHANGED <<sdb, engine, slast, sblocks, engineWriter, abciVars, replicaVars, unitVars>>

\* the handles inside execute_tx, which holds the read lock of the storage
\* from its first line to its return
StorageReaders == {c \in Clones : clones[c].pc \in {"lock_engine", "prove"}}

\* process_block, entry: new_height and the new block random
ProcessBlockBegin(c, txs) ==
    /\ clones[c].alive /\ clones[c].pc = "idle"
    /\ sblocks < SimMaxBlocks
    /\ LET new_height == clones[c].height + 1
           prev_vrf_accum == UnwrapOr(get_block_random(sdb, clones[c].height), Zero32)
       IN  clones' = [clones EXCEPT ![c] =
                        [@ EXCEPT !.pc = "set_block_random", !.txs = txs, !.i = 1,
                                  !.new_height = new_height,
                                  !.new_block_random = compute_block_random(Zero32, prev_vrf_accum),
                                  !.cur = NoBetRecord, !.bet_records = << >>]]
    /\ sblocks' = sblocks + 1
    /\ UNCHANGED <<sdb, engine, slast, engineWriter, abciVars, replicaVars, unitVars>>

\* process_block, "Store new block random" (under the write lock of the
\* storage, which waits for every reader to leave)
ProcessBlockSetRandom(c) ==
    /\ clones[c].pc = "set_block_random"
    /\ StorageReaders = {}
    /\ sdb' = set_block_random(sdb, clones[c].new_height, clones[c].new_block_random)
    /\ clones' = [clones EXCEPT ![c].pc = IF clones[c].i > Len(clones[c].txs) THEN "finish" ELSE "execute"]
    /\ UNCHANGED <<engine, slast, sblocks, engineWriter, abciVars, replicaVars, unitVars>>

\* a loop that leaves at the first transaction that fails validate_tx
ProcessBlockExecute_AbortOnInvalid(c) ==
    /\ clones[c].pc = "execute"
    /\ LET tx_bytes == clones[c].txs[clones[c].i]
           tx == validate_tx(tx_bytes)
           message == IF IsSome(tx)
                      THEN execute_tx_message(sdb, Unwrap(tx), clones[c].new_height,
                                              blake3(<<tx_bytes>>))
                      ELSE None
       IN  /\ clones' = [clones EXCEPT ![c] =
                           IF IsSome(message)
                           THEN [@ EXCEPT !.message = Unwrap(message), !.pc = "lock_engine"]
                           ELSE [@ EXCEPT !.i = Len(clones[c].txs) + 1, !.pc = "finish"]]
    /\ UNCHANGED <<sdb, engine, slast, sblocks, engineWriter, abciVars, replicaVars, unitVars>>

\* process_block, loop body up to the proof: validate_tx, and execute_tx as
\* far as the message: the read lock of the storage is taken and kept, the
\* block random read and the message computed under the read lock of the
\* engine (a transaction that fails is skipped)
ProcessBlockExecute(c) ==
    /\ clones[c].pc = "execute"
    /\ LET tx_bytes == clones[c].txs[clones[c].i]
           tx == validate_tx(tx_bytes)
           message == IF IsSome(tx)
                      THEN execute_tx_message(sdb, Unwrap(tx), clones[c].new_height,
                                              blake3(<<tx_bytes>>))
                      ELSE None
       IN  clones' = [clones EXCEPT ![c] =
                        IF IsSome(message)
                        THEN [@ EXCEPT !.message = Unwrap(message), !.pc = "lock_engine"]
                        ELSE [@ EXCEPT !.i = @ + 1,
                                       !.pc = IF clones[c].i + 1 > Len(clones[c].txs)
                                              THEN "finish" ELSE "execute"]]
    /\ UNCHANGED <<sdb, engine, slast, sblocks, engineWriter, abciVars, replicaVars, unitVars>>

\* an execute_tx that enters prove under the read lock of the engine
ProcessBlockLockEngine_ReadLock(c) ==
    /\ clones[c].pc = "lock_engine"
    /\ clones' = [clones EXCEPT ![c].pc = "prove"]
    /\ UNCHANGED <<sdb, engine, slast, sblocks, engineWriter, abciVars, replicaVars, unitVars>>

\* process_block, execute_tx: self.vrf_engine.write(), which waits until no
\* other handle holds the engine
ProcessBlockLockEngine(c) ==
    /\ clones[c].pc = "lock_engine"
    /\ engineWriter = None
    /\ engineWriter' = Some(c)
    /\ clones' = [clones EXCEPT ![c].pc = "prove"]
    /\ UNCHANGED <<sdb, engine, slast, sblocks, abciVars, replicaVars, unitVars>>

\* a prove that returns without releasing the write lock of the engine
ProcessBlockProve_KeepLock(c) ==
    /\ clones[c].pc = "prove"
    /\ LET tx_bytes == clones[c].txs[clones[c].i]
           r == execute_tx_record(Unwrap(engine), Unwrap(validate_tx(tx_bytes)),
                                  clones[c].new_height, blake3(<<tx_bytes>>), clones[c].message)
       IN  clones' = [clones EXCEPT ![c] = [@ EXCEPT !.cur = Some(r), !.message = << >>,
                                                      !.pc = "store_bet"]]
    /\ UNCHANGED <<sdb, engine, slast, sblocks, engineWriter, abciVars, replicaVars, unitVars>>

\* process_block, execute_tx under the write lock of the engine: prove; the
\* lock is released, the result derived, the record built and, with the
\* return of execute_tx, the read lock of the storage released
ProcessBlockProve(c) ==
    /\ clones[c].pc = "prove"
    /\ LET tx_bytes == clones[c].txs[clones[c].i]
           r == execute_tx_record(Unwrap(engine), Unwrap(validate_tx(tx_bytes)),
                                  clones[c].new_height, blake3(<<tx_bytes>>), clones[c].message)
       IN  clones' = [clones EXCEPT ![c] = [@ EXCEPT !.cur = Some(r), !.message = << >>,
                                                      !.pc = "store_bet"]]
    /\ engineWriter' = None
    /\ UNCHANGED <<sdb, engine, slast, sblocks, abciVars, replicaVars, unitVars>>

\* process_block, loop body after execute_tx: store_bet and bet_records.push
ProcessBlockStoreBet(c) ==
    /\ clones[c].pc = "store_bet"
    /\ sdb' = simple_store_bet(sdb, Unwrap(clones[c].cur).tx_hash, Unwrap(clones[c].cur))
    /\ clones' = [clones EXCEPT ![c] =
                    [@ EXCEPT !.bet_records = Append(@, Unwrap(clones[c].cur)),
                              !.cur = NoBetRecord, !.i = @ + 1,
                              !.pc = IF clones[c].i + 1 > Len(clones[c].txs)
                                     THEN "finish" ELSE "execute"]]
    /\ UNCHANGED <<engine, slast, sblocks, engineWriter, abciVars, replicaVars, unitVars>>

\* process_block, "Store app hash and height" (one write-lock section), the
\* height field and the return
ProcessBlockFinish(c) ==
    /\ clones[c].pc = "finish"
    /\ StorageReaders = {}
    /\ LET app_hash == compute_app_hash(clones[c].new_height, clones[c].new_block_random)
       IN  /\ sdb' = set_latest_height(set_app_hash(sdb, clones[c].new_height, app_hash),
                                       clones[c].new_height)
           /\ slast' = [kind |-> "process_block", clone |-> c, txs |-> clones[c].txs,
                        height |-> clones[c].new_height, app_hash |-> app_hash,
                        bet_records |-> clones[c].bet_records]
    /\ clones' = [clones EXCEPT ![c] = IdleClone(clones[c].new_height)]
    /\ UNCHANGED <<engine, sblocks, engineWriter, abciVars, replicaVars, unitVars>>

\* MyChainApp::query_bet
QueryBet(c, tx_bytes) ==
    /\ clones[c].alive /\ clones[c].pc = "idle"
    /\ slast' = [kind |-> "query_bet", clone |-> c, tx_hash |-> blake3(<<tx_bytes>>),
                 result |-> simple_get_bet(sdb, blake3(<<tx_bytes>>))]
    /\ UNCHANGED <<sdb, engine, clones, sblocks, engineWriter, abciVars, replicaVars, unitVars>>

SimpleInit ==
    /\ sdb = EmptySimpleDb
    /\ engine = None
    /\ clones = [c \in Clones |-> DeadClone]
    /\ slast = [kind |-> "start"]
    /\ sblocks = 0
    /\ engineWriter = None

SimpleNext ==
    \/ \E key \in Keys : New(key)
    \/ \E src \in Clones, dst \in Clones : CloneApp(src, dst)
    \/ \E c \in Clones, txs \in SimpleTxLists : ProcessBlockBegin(c, txs)
    \/ \E c \in Clones : ProcessBlockSetRandom(c)
    \/ \E c \in Clones : ProcessBlockExecute(c)
    \/ \E c \in Clones : ProcessBlockLockEngine(c)
    \/ \E c \in Clones : ProcessBlockProve(c)
    \/ \E c \in Clones : ProcessBlockStoreBet(c)
    \/ \E c \in Clones : ProcessBlockFinish(c)
    \/ \E c \in Clones, tx_bytes \in SimplePool : QueryBet(c, tx_bytes)

\* One process of the simple app that uses a single handle: started once,
\* it processes blocks one after the other and answers queries in between.
OneHandleNext ==
    \/ \E key \in Keys : engine = None /\ New(key)
    \/ \E txs \in SimpleTxLists : ProcessBlockBegin(1, txs)
    \/ ProcessBlockSetRandom(1)
    \/ ProcessBlockExecute(1)
    \/ ProcessBlockLockEngine(1)
    \/ ProcessBlockProve(1)
    \/ ProcessBlockStoreBet(1)
    \/ ProcessBlockFinish(1)
    \/ \E tx_bytes \in SimplePool : QueryBet(1, tx_bytes)

\* One process of the simple app whose handles process blocks of valid
\* transactions side by side: started once, no restart, no query.
LockTxLists == {<<TxValid>>, <<TxValid2, TxValid>>}
LockNext ==
    \/ \E key \in Keys : engine = None /\ New(key)
    \/ \E src \in Clones, dst \in Clones : CloneApp(src, dst)
    \/ \E c \in Clones, txs \in LockTxLists : ProcessBlockBegin(c, txs)
    \/ \E c \in Clones : ProcessBlockSetRandom(c)
    \/ \E c \in Clones : ProcessBlockExecute(c)
    \/ \E c \in Clones : ProcessBlockLockEngine(c)
    \/ \E c \in Clones : ProcessBlockProve(c)
    \/ \E c \in Clones : ProcessBlockStoreBet(c)
    \/ \E c \in Clones : ProcessBlockFinish(c)

\* The same process with queries: its handles process blocks of one valid
\* transaction and answer query_bet side by side.
ConcurrentTxLists == {<<TxValid>>}
ConcurrentNext ==
    \/ \E key \in Keys : engine = None /\ New(key)
    \/ \E src \in Clones, dst \in Clones : CloneApp(src, dst)
    \/ \E c \in Clones, txs \in ConcurrentTxLists : ProcessBlockBegin(c, txs)
    \/ \E c \in Clones : ProcessBlockSetRandom(c)
    \/ \E c \in Clones : ProcessBlockExecute(c)
    \/ \E c \in Clones : ProcessBlockLockEngine(c)
    \/ \E c \in Clones : ProcessBlockProve(c)
    \/ \E c \in Clones : ProcessBlockStoreBet(c)
    \/ \E c \in Clones : ProcessBlockFinish(c)
    \/ \E c \in Clones : QueryBet(c, TxValid)
\* the next step of a process_block call that is under way
ProcessBlockStep(c) ==
    \/ ProcessBlockSetRandom(c)
    \/ ProcessBlockExecute(c)
    \/ ProcessBlockLockEngine(c)
    \/ ProcessBlockProve(c)
    \/ ProcessBlockStoreBet(c)
    \/ ProcessBlockFinish(c)
\* the threads are scheduled: as long as some call under way can take its
\* next step (the lock it asks for being free), one of them does
ThreadsRun == WF_vars(\E c \in Clones : ProcessBlockStep(c))

\* ------------------------------------------------ the crates on their own
\* no call yet
NoCall == [kind |-> "start", key |-> 0, args |-> << >>, result |-> << >>]

UnitInit ==
    /\ vcall = [cur |-> NoCall, prev |-> NoCall]
    /\ store = EmptyDb
    /\ sbatch = batch

\* The VRF engines called on their own, as their unit tests call them.
\* The inputs of a message: one base vector and the vectors that differ
\* from it in a single input.
BaseInput ==
    [height |-> 1, block_random |-> Zero32, tx_hash |-> blake3(<<TxValid>>),
     wallet |-> 1, nonce |-> 1]
VrfInputs ==
    {BaseInput,
     [BaseInput EXCEPT !.height = 2],
     [BaseInput EXCEPT !.block_random = compute_block_random(Zero32, Zero32)],
     [BaseInput EXCEPT !.tx_hash = blake3(<<TxValid2>>)],
     [BaseInput EXCEPT !.wallet = 2],
     [BaseInput EXCEPT !.nonce = 2]}
\* the transactions handed to MyChainApp::process_flip: TxValid's fields, and
\* the same with another nonce
FlipTxs ==
    {[version |-> 1, wallet |-> 1, amount |-> 1000, nonce |-> 1],
     [version |-> 1, wallet |-> 1, amount |-> 1000, nonce |-> 2]}
\* the messages proved and verified on their own
VrfMessages ==
    {compute_flip_message(ChainId, a.height, a.block_random, a.tx_hash, a.wallet, a.nonce) :
        a \in {BaseInput, [BaseInput EXCEPT !.nonce = 2]}}
\* a proof with a byte changed
Tampered(proof) == <<"tampered", proof>>
\* public key bytes that belong to no engine
OtherPublicKey == <<"pk", 2>>

\* the calls after one more call: the call before it is remembered
Called(kind, key, args, result) ==
    [cur |-> [kind |-> kind, key |-> key, args |-> args, result |-> result],
     prev |-> vcall.cur]

\* VrfEngine::process_flip (ABCI app engine)
VrfProcessFlip(key, a) ==
    /\ vcall' = Called("process_flip", key, a,
                        vrf_process_flip(key, ChainId, a.height, a.block_random,
                                         a.tx_hash, a.wallet, a.nonce))
    /\ UNCHANGED <<store, sbatch, abciVars, replicaVars, simpleVars>>

\* MyChainApp::process_flip (ABCI app)
AppProcessFlip(key, tx, height) ==
    /\ vcall' = Called("app_process_flip", key, [tx |-> tx, height |-> height],
                        process_flip(tx, height, key, ChainId))
    /\ UNCHANGED <<store, sbatch, abciVars, replicaVars, simpleVars>>

\* VrfEngine::verify (ABCI app engine) of a proof and output made by `key`
\* over `proved`, possibly tampered with
VrfVerify(public_key, message, key, proved, tamper) ==
    /\ LET po == app_prove(key, proved)
           proof_bytes == IF tamper THEN Tampered(po.proof) ELSE po.proof
       IN  vcall' = Called("verify", key,
                           [public_key |-> public_key, message |-> message,
                            proof |-> proof_bytes, expected_output |-> po.output],
                           app_verify(public_key, message, proof_bytes, po.output))
    /\ UNCHANGED <<store, sbatch, abciVars, replicaVars, simpleVars>>

\* VrfEngine::compute_message (util engine)
UtilComputeMessage(key, a) ==
    /\ vcall' = Called("compute_message", key, a,
                        compute_message(ChainId, a.height, a.block_random, a.tx_hash,
                                        a.wallet, a.nonce))
    /\ UNCHANGED <<store, sbatch, abciVars, replicaVars, simpleVars>>

\* VrfEngine::prove (util engine)
UtilProve(key, message) ==
    /\ vcall' = Called("prove", key, message, prove(key, message))
    /\ UNCHANGED <<store, sbatch, abciVars, replicaVars, simpleVars>>

\* The storage crate called on its own, as its unit test calls it: writes
\* are staged into the current batch, apply_batch consumes it and the next
\* batch starts empty.
\* most operations staged into one batch
MaxBatch == 2
\* the values staged
StoreHeights == {1, 2}
StorePks == {app_public_key(1), OtherPublicKey}
StoreTxHash == blake3(<<TxValid>>)
StoreBets == {process_flip(tx, 1, 1, ChainId) : tx \in FlipTxs}

\* Storage::set_last_height on the current batch
StageLastHeight(height) ==
    /\ Len(sbatch) < MaxBatch
    /\ sbatch' = set_last_height(height, sbatch)
    /\ UNCHANGED <<store, vcall, abciVars, replicaVars, simpleVars>>

\* Storage::set_vrf_public_key on the current batch
StageVrfPublicKey(vrf_pk) ==
    /\ Len(sbatch) < MaxBatch
    /\ sbatch' = set_vrf_public_key(vrf_pk, sbatch)
    /\ UNCHANGED <<store, vcall, abciVars, replicaVars, simpleVars>>

\* Storage::store_bet on the current batch
StageBet(tx_hash, bet) ==
    /\ Len(sbatch) < MaxBatch
    /\ sbatch' = store_bet(tx_hash, bet, sbatch)
    /\ UNCHANGED <<store, vcall, abciVars, replicaVars, simpleVars>>

\* Storage::store_app_hash on the current batch
StageAppHash(height, app_hash) ==
    /\ Len(sbatch) < MaxBatch
    /\ sbatch' = store_app_hash(height, app_hash, sbatch)
    /\ UNCHANGED <<store, vcall, abciVars, replicaVars, simpleVars>>

\* Storage::store_tx_height on the current batch
StageTxHeight(tx_hash, height) ==
    /\ Len(sbatch) < MaxBatch
    /\ sbatch' = store_tx_height(tx_hash, height, sbatch)
    /\ UNCHANGED <<store, vcall, abciVars, replicaVars, simpleVars>>

\* Storage::apply_batch returning Ok; Storage::batch for the next writes
ApplyBatch ==
    /\ sbatch # batch
    /\ store' = apply_batch(store, sbatch)
    /\ sbatch' = batch
    /\ UNCHANGED <<vcall, abciVars, replicaVars, simpleVars>>

StorageNext ==
    \/ \E height \in StoreHeights : StageLastHeight(height)
    \/ \E vrf_pk \in StorePks : StageVrfPublicKey(vrf_pk)
    \/ \E bet \in StoreBets : StageBet(StoreTxHash, bet)
    \/ StageAppHash(1, storage_compute_app_hash(EmptyDb, 1))
    \/ StageTxHeight(StoreTxHash, 1)
    \/ ApplyBatch

VrfNext ==
    \/ \E key \in Keys, a \in VrfInputs : VrfProcessFlip(key, a)
    \/ \E key \in Keys, tx \in FlipTxs : AppProcessFlip(key, tx, 1)
    \/ \E public_key \in {app_public_key(1), OtherPublicKey}, message \in VrfMessages,
          key \in Keys, proved \in VrfMessages, tamper \in BOOLEAN :
          VrfVerify(public_key, message, key, proved, tamper)
    \/ \E key \in Keys, a \in VrfInputs : UtilComputeMessage(key, a)
    \/ \E key \in Keys, message \in VrfMessages : UtilProve(key, message)

\* ------------------------------------------------------- specifications
Init == AbciInit /\ ReplicasInit /\ SimpleInit /\ UnitInit

\* the ABCI app on one node
Next == AbciNext
Spec == Init /\ [][Next]_vars

\* the ABCI app under storage faults and a concurrent Info request
SpecFaults == Init /\ [][FaultsNext]_vars

\* two replicas of the ABCI app
SpecReplicas == Init /\ [][ReplicasNext]_vars

\* the simple app: one process, its handles, restarts
SpecSimple == Init /\ [][SimpleNext]_vars

\* the simple app used through one handle, without restart
SpecOneHandle == Init /\ [][OneHandleNext]_vars

\* the ABCI app asked for its state after blocks at any height
SpecInfo == Init /\ [][InfoNext]_vars

\* the consensus service of the ABCI app: proposals and blocks
SpecProposal == Init /\ [][ProposalNext]_vars

\* the services of the ABCI app on one node, short blocks
SpecService == Init /\ [][ServiceNext]_vars

\* the storage crate called on its own
SpecStorage == Init /\ [][StorageNext]_vars

\* the VRF engines called on their own
SpecVrf == Init /\ [][VrfNext]_vars

\* the simple app: handles settling valid transactions side by side
SpecLock == Init /\ [][LockNext]_vars
\* the same with queries, every thread being scheduled
SpecLockFair == Init /\ [][ConcurrentNext]_vars /\ ThreadsRun

\* ------------------------------------------------- claims on the ABCI app
\* the bet records of a database, by key
StoredBets(d) ==
    {BetRecord_from_bytes(d.app[k]) : k \in {x \in DOMAIN d.app : x[1] = "bets"}}

\* C2: the persisted last height steps by exactly 1 on every FinalizeBlock
\* that is served and is left alone by every other call (no gap, no rewind),
\* whatever height the request carries.
C2_HeightStepsByOne ==
    [][IF last'.kind = "FinalizeBlock"
       THEN get_last_height(db') = get_last_height(db) + 1
       ELSE get_last_height(db') = get_last_height(db)]_vars

\* C3: every bet of a FinalizeBlock is proved with the keypair generated at
\* genesis (InitChain), the one whose public key was persisted.
C3_ProveWithGenesisKey ==
    (last.kind = "FinalizeBlock" /\ IsSome(genesisKey)) =>
        \A i \in 1..Len(last.events) : last.events[i].vrf_proof[2] = Unwrap(genesisKey)

\* a store that holds prior state: a height above 0, a key, digests and bets
HasPriorState(d) ==
    /\ get_last_height(d) > 0
    /\ IsSome(get_vrf_public_key(d))
    /\ DOMAIN d.state # {}
    /\ StoredBets(d) # {}

\* C5: InitChain on a store with prior state changes nothing persisted and
\* generates no keypair.
C5_InitChainIdempotent ==
    [][(last'.kind = "InitChain" /\ HasPriorState(db)) =>
            (db' = db /\ genesisKey' = genesisKey)]_vars

\* C6: CheckTx rejects a zero-amount transaction with a non-zero code, and no
\* bet record is ever stored for zero-amount bytes.
ZeroAmountBytes == {b \in TxPool : IsSome(TxFlip_from_bytes(b)) /\ Unwrap(TxFlip_from_bytes(b)).amount = 0}
C6_ZeroAmountNeverSettled ==
    /\ (last.kind = "CheckTx" /\ last.tx \in ZeroAmountBytes) => last.code # 0
    /\ \A b \in ZeroAmountBytes : get_bet(db, blake3(<<b>>)) = None

\* the transaction at position i of the latest block was settled by it
SettledByLast(i) ==
    /\ IsSome(TxFlip_from_bytes(last.txs[i]))
    /\ \E j \in 1..Len(last.events) :
          last.events[j].tx_hash = TxFlip_hash(Unwrap(TxFlip_from_bytes(last.txs[i])))
    /\ IsSome(get_bet(db, blake3(<<last.txs[i]>>)))

\* C7: CheckTx accepts a byte string (code 0) exactly when block execution
\* settles it.
C7_CheckTxAgreesWithExecution ==
    last.kind = "FinalizeBlock" =>
        \A i \in 1..Len(last.txs) : (CheckTxCode(last.txs[i]) = 0) <=> SettledByLast(i)

\* ------------------------------------------------- claims on the replicas
\* Every step of the replicas starts from equal databases (the guard of
\* ReplicasNext) and hands both replicas the same height.
BothFinalized == ret[1].kind = "FinalizeBlock" /\ ret[2].kind = "FinalizeBlock"
\* the transaction hashes a response reports as settled, in order
SettledOf(response) == [i \in 1..Len(response.events) |-> response.events[i].tx_hash]

\* C1: replicas that started equal and received the same requests hold the
\* same persisted state and returned the same digest.
C1_ReplicasAgree ==
    sameLog => (rep[1] = rep[2] /\ (BothFinalized => ret[1].app_hash = ret[2].app_hash))

\* C8: two executions at one height from one prior state that settle
\* different ordered sets of transactions return different digests.
C8_DigestFoldsRecords ==
    (BothFinalized /\ SettledOf(ret[1]) # SettledOf(ret[2])) =>
        ret[1].app_hash # ret[2].app_hash

\* C9: two executions of the same ordered transaction list at one height from
\* one prior state return the same digest.
C9_SameListSameDigest ==
    (BothFinalized /\ ret[1].txs = ret[2].txs) => ret[1].app_hash = ret[2].app_hash
\* the same non-empty list was executed twice, with different keypairs
C9_Witness ==
    /\ BothFinalized
    /\ ret[1].txs = ret[2].txs
    /\ Len(ret[1].events) > 0
    /\ ret[1].events # ret[2].events
    /\ ret[1].app_hash = ret[2].app_hash

\* ------------------------------------------------ claims on the simple app
\* C4: a restart (MyChainApp::new on the store of a process that ran before)
\* yields the persisted height and leaves the persisted height and VRF
\* public key as they were, and the restarted application proves with the
\* pre-restart keypair, whose public key is the persisted one.
C4_RestartKeepsHeightAndKey ==
    [][(IsSome(engine) /\ \E key \in Keys : New(key)) =>
          /\ clones'[1].height = get_latest_height(sdb)
          /\ get_latest_height(sdb') = get_latest_height(sdb)
          /\ simple_get_vrf_public_key(sdb') = simple_get_vrf_public_key(sdb)
          /\ engine' = engine
          /\ Some(public_key_bytes(Unwrap(engine'))) = simple_get_vrf_public_key(sdb')]_vars

\* the bet records of the simple app's database
SimpleStoredBets(d) ==
    {BetRecord_from_bytes(d.app[k]) : k \in {x \in DOMAIN d.app : x[1] = "bet"}}

\* a handle at rest exists that can call query_bet now
ReaderReady == \E c \in Clones : clones[c].alive /\ clones[c].pc = "idle"

\* C10: a concurrent reader sees all of a block's writes or none: whenever a
\* handle can read (the storage lock is free in every state of SpecSimple), a
\* bet record of height h is visible only together with a last height of at
\* least h and the digest of h.
C10_NoPartialBlockVisible ==
    ReaderReady =>
        \A r \in SimpleStoredBets(sdb) :
            /\ get_latest_height(sdb) >= r.height
            /\ IsSome(simple_get_app_hash(sdb, r.height))

\* ------------------------------------ claims on the ABCI app under faults
\* a step that serves a FinalizeBlock request (each one is counted)
FinalizeServed == nblocks' = nblocks + 1
ApplyFailed(response) == response.kind \in {"InitChainApplyError", "FinalizeBlockApplyError"}

\* C11: an apply_batch that fails leaves none of the writes of its batch
\* visible: the database after the failing call is the database before it.
C11_ApplyBatchAllOrNothing ==
    [][ApplyFailed(last') => db' = db]_vars

\* C12: a FinalizeBlock that hit a storage failure (open, or apply_batch) does
\* not answer with the events and the digest of a block.
C12_StorageFailurePropagated ==
    last.kind \in {"FinalizeBlockError", "FinalizeBlockApplyError"} =>
        (last.events = << >> /\ last.app_hash = EmptyAppHash)

\* C13: every FinalizeBlock served while an Info request holds its handle on
\* the store returns a digest and leaves the last height at the requested
\* height.
C13_FinalizeRunsToCompletion ==
    [][(holder = "Info" /\ FinalizeServed) =>
          (last'.app_hash # EmptyAppHash /\ get_last_height(db') = last'.height)]_vars

\* ------------------------------------------- further claims, simple app
\* the byte strings of a list that pass validate_tx, in order
ValidOf(txs) == SelectSeq(txs, LAMBDA b : IsSome(validate_tx(b)))
AllValid(txs) == \A i \in 1..Len(txs) : IsSome(validate_tx(txs[i]))

\* C14: a transaction that fails to decode or to validate is skipped and
\* nothing else: the block that returned settled exactly the transactions of
\* its list that decode and validate, in order, each one is stored, the
\* handle's height advanced to the block's height and the digest of that
\* height is stored.
C14_InvalidTxSkipped ==
    slast.kind = "process_block" =>
        /\ Len(slast.bet_records) = Len(ValidOf(slast.txs))
        /\ \A i \in 1..Len(slast.bet_records) :
              /\ slast.bet_records[i].tx_hash = blake3(<<ValidOf(slast.txs)[i]>>)
              /\ IsSome(simple_get_bet(sdb, slast.bet_records[i].tx_hash))
        /\ clones[slast.clone].height = slast.height
        /\ simple_get_app_hash(sdb, slast.height) = Some(slast.app_hash)
\* a block returned whose list holds a malformed transaction ahead of a valid
\* one, and the valid one was settled
C14_Witness ==
    /\ slast.kind = "process_block"
    /\ \E i \in 1..Len(slast.txs), j \in 1..Len(slast.txs) :
          /\ i < j
          /\ ~IsSome(validate_tx(slast.txs[i]))
          /\ IsSome(validate_tx(slast.txs[j]))
    /\ Len(slast.bet_records) = 1

\* C20: process_block on a handle at height h with n transactions that all
\* pass validate_tx returns n records, in input order, each copying wallet,
\* amount and nonce of its transaction, and leaves the handle's height and
\* the persisted latest height at h + 1.
C20_ProcessBlockSettlesAll ==
    [][\A c \in Clones :
          (ProcessBlockFinish(c) /\ AllValid(clones[c].txs)) =>
             /\ Len(slast'.bet_records) = Len(clones[c].txs)
             /\ \A i \in 1..Len(clones[c].txs) :
                   LET tx == Unwrap(TxFlip_from_bytes(clones[c].txs[i]))
                       r == slast'.bet_records[i]
                   IN  /\ r.wallet = tx.wallet
                       /\ r.amount = tx.amount
                       /\ r.nonce = tx.nonce
                       /\ r.tx_hash = blake3(<<clones[c].txs[i]>>)
                       /\ r.height = clones[c].height + 1
             /\ clones'[c].height = clones[c].height + 1
             /\ get_latest_height(sdb') = clones[c].height + 1]_vars
\* the first block of a chain returned with two different valid transactions
C20_Witness ==
    /\ slast.kind = "process_block"
    /\ slast.txs = <<TxValid, TxValid2>>
    /\ Len(slast.bet_records) = 2
    /\ slast.bet_records[1].amount = 1000 /\ slast.bet_records[2].amount = 500
    /\ slast.height = 1
    /\ get_latest_height(sdb) = 1

\* ------------------------------------------ further claims, ABCI app
\* C15: a bet record, once stored under a transaction hash, is never changed
\* or removed by a later request.
C15_BetRecordImmutable ==
    [][\A k \in DOMAIN db.app :
          k[1] = "bets" => (k \in DOMAIN db'.app /\ db'.app[k] = db.app[k])]_vars

\* the block seed inside a VRF proof: the fourth chunk of the proved message
SeedOfProof(vrf_proof) == vrf_proof[3][2][4]
\* a value of the form H(prevBlockHash || previous seed)
IsChainedSeed(x) == Len(x) = 2 /\ x[1] = "blake3" /\ Len(x[2]) = 2

\* C17: the block seed fed into the VRF message of every bet of a block is a
\* chained value H(prevBlockHash || seed of the previous height).
C17_SeedIsChained ==
    last.kind = "FinalizeBlock" =>
        \A i \in 1..Len(last.events) : IsChainedSeed(SeedOfProof(last.events[i].vrf_proof))

\* C18: InitChain on an empty store persists the public key of the keypair it
\* generated, sets the last height to 0 and persists a genesis digest, which
\* is the digest it returns.
C18_InitChainGenesis ==
    [][(last'.kind = "InitChain" /\ db = EmptyDb) =>
          /\ IsSome(get_vrf_public_key(db'))
          /\ LastHeightKey \in DOMAIN db'.meta
          /\ get_last_height(db') = 0
          /\ IsSome(get_app_hash(db', 0))
          /\ get_app_hash(db', 0) = Some(last'.app_hash)]_vars

\* ------------------------------------- further claims, simple app storage
\* C16: a block seed, once stored for a height (the genesis seed included), is
\* never replaced by a different value.
C16_SeedWrittenOnce ==
    [][\A k \in DOMAIN sdb.app :
          k[1] = "block_random" => (k \in DOMAIN sdb'.app /\ sdb'.app[k] = sdb.app[k])]_vars

\* C19: after init_genesis(pk, seed) on an empty store every value it wrote
\* reads back through its getter: the latest height is 1, the public key is
\* pk, the seed of height 1 is seed and the digest of height 1 is
\* compute_app_hash(1, seed).
C19_GenesisReadsBack ==
    [][(sdb = EmptySimpleDb /\ \E key \in Keys : New(key)) =>
          /\ simple_get_vrf_public_key(sdb') = Some(public_key_bytes(Unwrap(engine')))
          /\ get_block_random(sdb', 1) = Some(Zero32)
          /\ get_latest_height(sdb') = 1
          /\ simple_get_app_hash(sdb', 1) = Some(compute_app_hash(1, Zero32))]_vars

\* the handles whose execute_tx is inside VrfEngine::prove
Proving == {c \in Clones : clones[c].pc = "prove"}

\* C30: Prove runs under mutual exclusion: across all handles that share the
\* engine, at most one Prove call is in progress at any time, and it is the
\* call of the handle that holds the write lock of the engine.
C30_ProveMutuallyExclusive ==
    /\ Cardinality(Proving) <= 1
    /\ \A c \in Proving : engineWriter = Some(c)

\* one handle is inside prove while another has its message and waits for
\* the write lock of the engine
C30_Witness ==
    \E c \in Clones, w \in Clones :
        /\ c # w
        /\ clones[c].pc = "prove"
        /\ clones[w].pc = "lock_engine"

\* C29: for every height with a stored digest, Storage::compute_app_hash on
\* the persisted state gives the stored value again, in every reachable state
\* (after a later InitChain, after a later block).
C29_DigestRecomputable ==
    \A k \in DOMAIN db.state : db.state[k] = storage_compute_app_hash(db, from_le_bytes(k[2]))

\* C21: a Query on "/bet" with the 32-byte hash of a settled transaction (the
\* tx_hash of its record) returns code 0 and that record; with a 32-byte hash
\* no record carries it returns code 4; a Query changes no state.
C21_BetLookup ==
    [][(last'.kind = "Query" /\ last'.path = "/bet" /\ data_len(last'.data) = 32) =>
          /\ db' = db
          /\ IF \E r \in StoredBets(db) : r.tx_hash = last'.data
             THEN /\ last'.code = 0
                  /\ BetRecord_from_bytes(last'.value).tx_hash = last'.data
             ELSE last'.code = 4]_vars

\* C22: Commit changes nothing: the persisted state after a Commit is the
\* state before it (height, records, digests, key), the response carries no
\* outcome, and so any number of Commits leaves what one Commit leaves.
C22_CommitChangesNothing ==
    [][last'.kind = "Commit" =>
          /\ db' = db
          /\ genesisKey' = genesisKey
          /\ last' = [kind |-> "Commit", retain_height |-> 0]]_vars

\* a Commit answered on a store that holds a block with a settled bet
C22_Witness ==
    /\ last.kind = "Commit"
    /\ get_last_height(db) > 0
    /\ StoredBets(db) # {}

\* C23: CheckTx returns 0 exactly for bytes that decode to amount > 0 and a
\* wallet that is not all-zero, 1 for amount 0, 2 for an all-zero wallet with
\* amount > 0, 3 for bytes that do not decode; the code depends on the bytes
\* alone and no state changes.
C23_CheckTxCodes ==
    [][last'.kind = "CheckTx" =>
          LET b == last'.tx
          IN  /\ last'.code \in {0, 1, 2, 3}
              /\ (last'.code = 0) <=> (b.ok /\ b.amount > 0 /\ b.wallet # ZeroWallet)
              /\ (last'.code = 1) <=> (b.ok /\ b.amount = 0)
              /\ (last'.code = 2) <=> (b.ok /\ b.amount > 0 /\ b.wallet = ZeroWallet)
              /\ (last'.code = 3) <=> ~b.ok
              /\ db' = db
              /\ genesisKey' = genesisKey]_vars

\* a CheckTx of a transaction with amount 0 and the all-zero wallet, answered
\* with code 1 on a store that holds settled bets
C23_Witness ==
    /\ last.kind = "CheckTx"
    /\ last.tx = TxZeroBoth
    /\ last.code = 1
    /\ StoredBets(db) # {}

\* --------------------------------------------- claims on the VRF engines
\* C24: Verify succeeds for a proof made by the matching key over exactly that
\* message, and fails for a tampered proof, for public key bytes of no engine
\* and for a proof made over a different message.
C24_VerifySound ==
    vcall.cur.kind = "verify" =>
        (vcall.cur.result <=>
            \E key \in Keys :
                /\ vcall.cur.args.public_key = app_public_key(key)
                /\ vcall.cur.args.proof = app_prove(key, vcall.cur.args.message).proof
                /\ vcall.cur.args.expected_output = app_prove(key, vcall.cur.args.message).output)

\* the calls that prove or build a message
ProvingKinds == {"process_flip", "app_process_flip", "prove", "compute_message"}
\* the call repeats the call before it: same function, same arguments, and
\* (but for compute_message, which uses no key) the same engine
Repeated ==
    /\ vcall.cur.kind \in ProvingKinds
    /\ vcall.prev.kind = vcall.cur.kind
    /\ vcall.prev.args = vcall.cur.args
    /\ vcall.cur.kind # "compute_message" => vcall.prev.key = vcall.cur.key

OneInputChanged(a, b) ==
    Cardinality({f \in {"height", "block_random", "tx_hash", "wallet", "nonce"} : a[f] # b[f]}) = 1
\* two flips, same key and height, whose transactions differ only in nonce
NonceOnly ==
    /\ vcall.cur.kind = "app_process_flip" /\ vcall.prev.kind = "app_process_flip"
    /\ vcall.cur.key = vcall.prev.key
    /\ vcall.cur.args.height = vcall.prev.args.height
    /\ vcall.cur.args.tx.nonce # vcall.prev.args.tx.nonce
    /\ vcall.cur.args.tx = [vcall.prev.args.tx EXCEPT !.nonce = vcall.cur.args.tx.nonce]

\* C26: two transactions that differ only in nonce, settled with the same key
\* at the same height, get different transaction hashes, messages and
\* outputs; and two messages built from inputs that differ in one single
\* input (height, seed, tx hash, wallet or nonce) differ.
C26_Sensitive ==
    /\ NonceOnly =>
          /\ vcall.cur.result.tx_hash # vcall.prev.result.tx_hash
          /\ vcall.cur.result.vrf_message # vcall.prev.result.vrf_message
          /\ vcall.cur.result.vrf_output # vcall.prev.result.vrf_output
    /\ (/\ vcall.cur.kind = "process_flip" /\ vcall.prev.kind = "process_flip"
        /\ OneInputChanged(vcall.cur.args, vcall.prev.args)) =>
          vcall.cur.result.message # vcall.prev.result.message
    /\ (/\ vcall.cur.kind = "compute_message" /\ vcall.prev.kind = "compute_message"
        /\ OneInputChanged(vcall.cur.args, vcall.prev.args)) =>
          vcall.cur.result # vcall.prev.result

\* two flips in a row on one engine whose transactions differ only in nonce
C26_Witness == NonceOnly /\ vcall.cur.result.vrf_output[2] = vcall.cur.key

\* C27: one encoding everywhere: compute_flip_message (ABCI app) and
\* compute_message (util) give the same message for the same inputs, and the
\* two digest functions hash the same bytes for the height.
C27_OneEncoding ==
    vcall.cur.kind \in {"process_flip", "compute_message"} =>
        LET a == vcall.cur.args
        IN  /\ compute_flip_message(ChainId, a.height, a.block_random, a.tx_hash, a.wallet, a.nonce)
                 = compute_message(ChainId, a.height, a.block_random, a.tx_hash, a.wallet, a.nonce)
            /\ storage_compute_app_hash(EmptyDb, a.height)[2][1]
                 = compute_app_hash(a.height, a.block_random)[2][1]

\* --------------------------------------------- claims on the storage crate
\* the operation at position i is the last one staged for its key
LastStaged(b, i) ==
    \A j \in (i + 1)..Len(b) : ~(b[j].tree_name = b[i].tree_name /\ b[j].key = b[i].key)
\* the batch has an operation for key k of tree t
Staged(b, t, k) == \E i \in 1..Len(b) : b[i].tree_name = t /\ b[i].key = k
\* what the typed reads return
Reads(d) ==
    [last_height |-> get_last_height(d), vrf_pk |-> get_vrf_public_key(d),
     bet |-> get_bet(d, StoreTxHash), app_hash |-> get_app_hash(d, 1),
     tx_height |-> get_tx_height(d, StoreTxHash)]
\* what the typed reads return once the batch is applied: the last value
\* staged for a key, and what they returned before for the other keys
ReadsAfter(d, b) ==
    LET at(t, k) == CHOOSE i \in 1..Len(b) :
                        b[i].tree_name = t /\ b[i].key = k /\ LastStaged(b, i)
    IN  [last_height |-> IF Staged(b, "meta", LastHeightKey)
                         THEN from_le_bytes(b[at("meta", LastHeightKey)].value)
                         ELSE Reads(d).last_height,
         vrf_pk |-> IF Staged(b, "app", VrfPkKey)
                    THEN Some(b[at("app", VrfPkKey)].value)
                    ELSE Reads(d).vrf_pk,
         bet |-> IF Staged(b, "app", BetKey(StoreTxHash))
                 THEN Some(BetRecord_from_bytes(b[at("app", BetKey(StoreTxHash))].value))
                 ELSE Reads(d).bet,
         app_hash |-> IF Staged(b, "state", AppHashKey(1))
                      THEN Some(b[at("state", AppHashKey(1))].value)
                      ELSE Reads(d).app_hash,
         tx_height |-> IF Staged(b, "tx", TxKey(StoreTxHash))
                       THEN Some(from_le_bytes(b[at("tx", TxKey(StoreTxHash))].value))
                       ELSE Reads(d).tx_height]

\* C28: staging a write changes no read; after apply_batch every staged key
\* reads back the last value staged for it and every other key reads as
\* before; a last height never written reads 0 and a key never written is
\* absent.
C28_StagedThenApplied ==
    [][/\ (sbatch' # sbatch /\ sbatch' # batch) =>
             (store' = store /\ Reads(store') = Reads(store))
       /\ (sbatch # batch /\ sbatch' = batch) =>
             /\ Reads(store') = ReadsAfter(store, sbatch)
             /\ \A t \in TreeNames : \A k \in DOMAIN store[t] :
                    ~Staged(sbatch, t, k) => Get(store'[t], k) = Get(store[t], k)
             /\ \A t \in TreeNames : \A k \in DOMAIN store'[t] :
                    k \in DOMAIN store[t] \/ Staged(sbatch, t, k)
       /\ LastHeightKey \notin DOMAIN store'.meta => Reads(store').last_height = 0
       /\ VrfPkKey \notin DOMAIN store'.app => Reads(store').vrf_pk = None]_vars

\* batches were applied and the next batch is empty: the height reads 2 and
\* the public key is present, the bet, never staged, is absent
C28_Witness ==
    /\ sbatch = batch
    /\ get_last_height(store) = 2
    /\ IsSome(get_vrf_public_key(store))
    /\ ~IsSome(get_bet(store, StoreTxHash))

\* ------------------------------------ claims on the ABCI app (behaviour)
\* the byte strings of a request that decode, in request order
Decodable(txs) == SelectSeq(txs, LAMBDA b : b.ok)

\* C31: FinalizeBlock returns one flip event per transaction that decodes, in
\* the order of the request (wallet, amount and hash of the event are those
\* of the transaction at that place), and the event says "heads" exactly when
\* the record stored for that transaction has result true; PrepareProposal
\* returns the transactions of the request, unchanged and in order.
C31_EventsInOrder ==
    [][/\ last'.kind = "FinalizeBlock" =>
             LET dec == Decodable(last'.txs)
             IN  /\ Len(last'.events) = Len(dec)
                 /\ \A i \in 1..Len(dec) :
                        LET e == last'.events[i]
                            r == get_bet(db', blake3(<<dec[i]>>))
                        IN  /\ e.kind = "flip"
                            /\ e.wallet = dec[i].wallet
                            /\ e.amount = dec[i].amount
                            /\ e.tx_hash = blake3(<<[dec[i] EXCEPT !.extra = 0]>>)
                            /\ IsSome(r)
                            /\ (e.result = "heads") <=> Unwrap(r).result
                            /\ e.result \in {"heads", "tails"}
       /\ last'.kind = "PrepareProposal" => last'.txs = last'.req_txs]_vars

\* a block of three byte strings, the second undecodable, answered with the
\* events of the first and the third in that order
C31_Witness ==
    /\ last.kind = "FinalizeBlock"
    /\ Len(last.txs) = 3
    /\ Len(last.events) = 2
    /\ last.events[1].wallet = 2
    /\ last.events[2].wallet = 1

\* C32: every Query is answered with a typed result: code 6 for a path other
\* than "/bet"; on "/bet" code 2 for data shorter than 32 bytes, code 0 with
\* the stored bytes when a record is stored under the data, code 4 when none
\* is; a failing storage gives code 1; data that is not exactly 32 bytes
\* never returns a record, and the store is left alone.
C32_QueryTyped ==
    [][last'.kind \in {"Query", "QueryError"} =>
          LET q == last'
              stored == Get(db.app, BetKey(q.data))
          IN  /\ q.code \in {0, 1, 2, 4, 6}
              /\ q.kind = "QueryError" => q.code = 1
              /\ q.kind = "Query" =>
                    /\ q.path # "/bet" => q.code = 6
                    /\ (q.path = "/bet" /\ data_len(q.data) < 32) => q.code = 2
                    /\ (q.path = "/bet" /\ data_len(q.data) >= 32 /\ IsSome(stored)) =>
                          (q.code = 0 /\ q.value = Unwrap(stored))
                    /\ (q.path = "/bet" /\ data_len(q.data) >= 32 /\ ~IsSome(stored)) =>
                          q.code = 4
              /\ q.code # 0 => q.value = << >>
              /\ data_len(q.data) # 32 => q.code # 0
              /\ db' = db]_vars

\* a Query on "/bet" with a stored hash followed by one more byte, answered
\* not-found while the record of the hash is in the store
C32_Witness ==
    /\ last.kind = "Query"
    /\ last.path = "/bet"
    /\ last.data = LongData(blake3(<<TxValid>>))
    /\ last.code = 4
    /\ IsSome(get_bet(db, blake3(<<TxValid>>)))

\* C33: every record of the store sits under its own transaction hash, and
\* the tx-height index maps that hash to the height of the record, for every
\* byte string that decodes (trailing bytes included).
C33_StoredUnderOwnHash ==
    \A k \in DOMAIN db.app :
        k[1] = "bets" =>
            LET r == BetRecord_from_bytes(db.app[k])
            IN  /\ r.tx_hash = k[2]
                /\ get_tx_height(db, k[2]) = Some(r.height)

\* C34: every bet a FinalizeBlock reports as settled is persisted: after the
\* response, the lookup of each flip event's transaction hash returns a
\* record of that bet, also when a storage write failed during the block.
C34_ReportedIsPersisted ==
    [][last'.kind \in {"FinalizeBlock", "FinalizeBlockApplyError"} =>
          \A i \in 1..Len(last'.events) :
              LET r == get_bet(db', last'.events[i].tx_hash)
              IN  /\ IsSome(r)
                  /\ Unwrap(r).wallet = last'.events[i].wallet
                  /\ Unwrap(r).vrf_proof = last'.events[i].vrf_proof]_vars

\* the encoding of the height a FinalizeBlock response was given for
HeightLe(response) ==
    IF "wide" \in DOMAIN response THEN wide_to_le_bytes(response.height)
    ELSE to_le_bytes(response.height)

\* C35: an Info served right after a FinalizeBlock at height h reports
\* last_block_height = h and the digest that FinalizeBlock returned, for
\* every 64-bit h (also h of 2^32 and above); an Info served after InitChain
\* alone reports height 0 and the digest InitChain returned.
C35_InfoReportsLastBlock ==
    [][(holder = "Info" /\ holder' = "none") =>
          /\ last.kind = "FinalizeBlock" =>
                /\ to_le_bytes(last'.last_block_height) = HeightLe(last)
                /\ last'.last_block_app_hash = last.app_hash
          /\ (last.kind = "InitChain" /\ nblocks = 0) =>
                /\ last'.last_block_height = 0
                /\ last'.last_block_app_hash = last.app_hash]_vars

\* C36: with clones of MyChainApp sharing one store, every process_block
\* call works on a height of its own: when a call completes, no earlier call
\* (and not genesis) has executed its height, so the digest, the seed and
\* the latest height written for an executed height are never written again.
C36_HeightsExecutedOnce ==
    [][\A c \in Clones :
          (clones[c].pc = "finish" /\ clones'[c].pc = "idle") =>
              /\ ~IsSome(simple_get_app_hash(sdb, clones[c].new_height))
              /\ clones[c].new_height > get_latest_height(sdb)]_vars

\* C37: process_block, execute_tx and query_bet running side by side on
\* clones never block each other for good: with every thread scheduled, a
\* process_block call that has started returns.
C37_CallsTerminate ==
    \A c \in Clones : (clones[c].pc # "idle") ~> (clones[c].pc = "idle")

\* a handle waits for the write lock of the storage while another, inside
\* execute_tx, holds its read lock and the write lock of the engine
C37_Witness ==
    \E c \in Clones, w \in Clones :
        /\ c # w
        /\ clones[c].pc \in {"set_block_random", "finish"}
        /\ clones[w].pc = "prove"
        /\ engineWriter = Some(w)
====
